---- MODULE Spec2Model ----
(***************************************************************************)
(* Tic-tac-toe against a minimax opponent (src/main.cpp).                  *)
(*                                                                         *)
(* The module models                                                       *)
(*   - the win detector        CheckLine, CheckWin                         *)
(*   - the search              MiniMax, FindBestMove                       *)
(*   - the game loop of App    OnUserUpdate, HandleAiTurn,                 *)
(*                             HandlePlayerTurn, StartAiThink, Reset       *)
(*   - the worker thread that std::async starts for FindBestMove.          *)
(*                                                                         *)
(* Cells are numbered as in the source: cell i has x = i / boardWidth and  *)
(* y = i % boardWidth.  An optional value (std::optional<WinningMove>) is  *)
(* the empty set or a singleton.                                           *)
(***************************************************************************)
EXTENDS Integers, Sequences, FiniteSets, TLC

\* ---------------------------------------------------------------------------
\* Constants of the program (src/main.cpp:11-30)
\* ---------------------------------------------------------------------------
None == 0
Cross == 1
Cricle == 2

tileSize == 32
boardWidth == 3
piecesToWin == 3
useAi == TRUE

\* constexpr bool playerStart: true in the source as it stands.  The build's
\* value is kept in a variable that no step changes, so that a specification
\* can start from either value.
playerStartAsBuilt == TRUE
VARIABLE playerStart

playerPiece == IF playerStart THEN Cross ELSE Cricle
computerPiece == IF playerStart THEN Cricle ELSE Cross

EPiece == {None, Cross, Cricle}
NumCells == boardWidth * boardWidth
Cells == 0..(NumCells - 1)
Board == [Cells -> EPiece]
EmptyBoard == [i \in Cells |-> None]

\* ---------------------------------------------------------------------------
\* Win detector
\* ---------------------------------------------------------------------------
\* int CheckLine(board, expected, pos, searchDirection): the number of cells
\* holding `expected` from (x, y) on in direction (dx, dy).
RECURSIVE CheckLine(_, _, _, _, _, _)
CheckLine(cells, expected, x, y, dx, dy) ==
    IF x < 0 \/ x >= boardWidth THEN 0
    ELSE IF y < 0 \/ y >= boardWidth THEN 0
    ELSE IF cells[x * boardWidth + y] # expected THEN 0
    ELSE 1 + CheckLine(cells, expected, x + dx, y + dy, dx, dy)

\* A WinningMove whose position has its coordinates exchanged.
WinningMoveTransposed(piece, position, direction) ==
    [piece |-> piece, position |-> <<position[2], position[1]>>, direction |-> direction]

\* struct WinningMove, as CheckWin fills it in
WinningMove(piece, position, direction) ==
    [piece |-> piece, position |-> position, direction |-> direction]

\* The count of a family with both lines started on the placed cell.
LinePiecesFromOrigin(cells, placedPiece, x, y, dx, dy) ==
    CheckLine(cells, placedPiece, x, y, dx, dy)
    + CheckLine(cells, placedPiece, x, y, -dx, -dy)

\* The count CheckWin takes of one family: the line from the placed cell on in
\* the negative direction (dx, dy), and the line from the next cell on in the
\* positive direction.
LinePieces(cells, placedPiece, x, y, dx, dy) ==
    CheckLine(cells, placedPiece, x, y, dx, dy)
    + CheckLine(cells, placedPiece, x - dx, y - dy, -dx, -dy)

\* std::optional<WinningMove> CheckWin(board, placedPiecePosition)
CheckWin(cells, placedPiecePosition) ==
    LET placedPiece == cells[placedPiecePosition]
        x == placedPiecePosition \div boardWidth
        y == placedPiecePosition % boardWidth
        horizontalPieces == LinePieces(cells, placedPiece, x, y, -1, 0)
        verticalPieces == LinePieces(cells, placedPiece, x, y, 0, -1)
        diag1pieces == LinePieces(cells, placedPiece, x, y, -1, -1)
        diag2pieces == LinePieces(cells, placedPiece, x, y, -1, 1)
    IN  IF horizontalPieces >= piecesToWin
        THEN {WinningMove(placedPiece, <<x, y>>, <<-1, 0>>)}
        ELSE IF verticalPieces >= piecesToWin
        THEN {WinningMove(placedPiece, <<x, y>>, <<0, -1>>)}
        ELSE IF diag1pieces >= piecesToWin
        THEN {WinningMove(placedPiece, <<x, y>>, <<-1, -1>>)}
        ELSE IF diag2pieces >= piecesToWin
        THEN {WinningMove(placedPiece, <<x, y>>, <<-1, 1>>)}
        ELSE {}

\* The value held by a non-empty optional.
ValueOf(opt) == CHOOSE w \in opt : TRUE

\* ---------------------------------------------------------------------------
\* Search
\* ---------------------------------------------------------------------------
Max2(a, b) == IF a > b THEN a ELSE b
Min2(a, b) == IF a < b THEN a ELSE b

\* bool hasEmpty of MiniMax (the scan for an empty cell)
HasEmpty(cells) == \E i \in Cells : cells[i] = None

\* int MiniMax(Board& board, depth, placedPiece, isMax).  The board is passed
\* by reference and written in place, so the operator returns the score
\* together with the cells as the call leaves them.
RECURSIVE MiniMax(_, _, _, _)
RECURSIVE MiniMaxLoop(_, _, _, _, _)
\* The loops of MiniMax without the write of None after the recursive call.
MiniMaxLoopKeepsPiece(cells, depth, i, best, isMax) ==
    IF i >= NumCells THEN [score |-> best, cells |-> cells]
    ELSE IF cells[i] = None
    THEN LET placed == [cells EXCEPT ![i] = IF isMax THEN computerPiece ELSE playerPiece]
             sub == MiniMax(placed, depth + 1, i, ~isMax)
             nbest == IF isMax THEN Max2(best, sub.score) ELSE Min2(best, sub.score)
         IN  MiniMaxLoop(sub.cells, depth, i + 1, nbest, isMax)
    ELSE MiniMaxLoop(cells, depth, i + 1, best, isMax)

\* The two for-loops of MiniMax from cell i on: place the mover's piece on an
\* empty cell, recurse, write None back.
MiniMaxLoop(cells, depth, i, best, isMax) ==
    IF i >= NumCells THEN [score |-> best, cells |-> cells]
    ELSE IF cells[i] = None
    THEN LET placed == [cells EXCEPT ![i] = IF isMax THEN computerPiece ELSE playerPiece]
             sub == MiniMax(placed, depth + 1, i, ~isMax)
             nbest == IF isMax THEN Max2(best, sub.score) ELSE Min2(best, sub.score)
         IN  MiniMaxLoop([sub.cells EXCEPT ![i] = None], depth, i + 1, nbest, isMax)
    ELSE MiniMaxLoop(cells, depth, i + 1, best, isMax)

MiniMax(cells, depth, placedPiece, isMax) ==
    LET winner == CheckWin(cells, placedPiece)
    IN  IF winner # {}
        THEN [score |-> IF ValueOf(winner).piece = computerPiece THEN 1 ELSE -1,
              cells |-> cells]
        ELSE IF ~HasEmpty(cells) THEN [score |-> 0, cells |-> cells]
        ELSE MiniMaxLoop(cells, depth, 0, IF isMax THEN -1000 ELSE 1000, isMax)

\* FindBestMove's loop taking a move that scores as well as the best so far.
RECURSIVE FindBestMoveLoopTakesLast(_, _, _, _, _)
FindBestMoveLoopTakesLast(cells, piece, i, bestVal, bestMove) ==
    IF i >= NumCells THEN bestMove
    ELSE IF cells[i] = None
    THEN LET sub == MiniMax([cells EXCEPT ![i] = piece], 0, i, FALSE)
             restored == [sub.cells EXCEPT ![i] = None]
         IN  IF sub.score >= bestVal
             THEN FindBestMoveLoopTakesLast(restored, piece, i + 1, sub.score, i)
             ELSE FindBestMoveLoopTakesLast(restored, piece, i + 1, bestVal, bestMove)
    ELSE FindBestMoveLoopTakesLast(cells, piece, i + 1, bestVal, bestMove)

\* The for-loop of FindBestMove from cell i on.  `cells` is FindBestMove's own
\* copy of its argument.
RECURSIVE FindBestMoveLoop(_, _, _, _, _)
FindBestMoveLoop(cells, piece, i, bestVal, bestMove) ==
    IF i >= NumCells THEN bestMove
    ELSE IF cells[i] = None
    THEN LET sub == MiniMax([cells EXCEPT ![i] = piece], 0, i, FALSE)
             restored == [sub.cells EXCEPT ![i] = None]
         IN  IF sub.score > bestVal
             THEN FindBestMoveLoop(restored, piece, i + 1, sub.score, i)
             ELSE FindBestMoveLoop(restored, piece, i + 1, bestVal, bestMove)
    ELSE FindBestMoveLoop(cells, piece, i + 1, bestVal, bestMove)

\* FindBestMove with bestVal started at 0.
FindBestMoveFromZero(cells, piece) == FindBestMoveLoop(cells, piece, 0, 0, -1)

\* int FindBestMove(Board board, EPiece piece)
FindBestMove(cells, piece) == FindBestMoveLoop(cells, piece, 0, -1000, -1)

\* The pieces the search places, path by path.  MiniMaxPaths is the set of the
\* sequences of pieces that the loops of MiniMax(cells, depth, placedPiece,
\* isMax) and the calls below them write to the board, one sequence for every
\* path down to a call that returns without a loop.
RECURSIVE MiniMaxPaths(_, _, _, _)
MiniMaxPaths(cells, depth, placedPiece, isMax) ==
    IF CheckWin(cells, placedPiece) # {} \/ ~HasEmpty(cells) THEN {<<>>}
    ELSE LET piece == IF isMax THEN computerPiece ELSE playerPiece
         IN  UNION {{<<piece>> \o path :
                        path \in MiniMaxPaths([cells EXCEPT ![i] = piece], depth + 1, i, ~isMax)} :
                    i \in {j \in Cells : cells[j] = None}}

\* The same for FindBestMove(cells, piece), whose loop writes `piece`.
FindBestMovePaths(cells, piece) ==
    UNION {{<<piece>> \o path :
                path \in MiniMaxPaths([cells EXCEPT ![i] = piece], 0, i, FALSE)} :
            i \in {j \in Cells : cells[j] = None}}

\* ---------------------------------------------------------------------------
\* Search as the worker thread runs it
\* ---------------------------------------------------------------------------
(* The worker thread runs FindBestMove on the snapshot it was given.  Its    *)
(* scores are those of MiniMax; the scores of the positions in which Cross   *)
(* and Cricle were placed in turn are tabulated once, position by position   *)
(* in the order of their empty cells, so that a game's searches do not walk  *)
(* the same subtrees again.  A table is [auto, scores]: the        *)
(* automated piece it was built for and the scores by <<cells, isMax>>; a    *)
(* position that is not tabulated is searched by the loops.                  *)
Count(cells, piece) == Cardinality({i \in Cells : cells[i] = piece})
GameBoards == {b \in Board : Count(b, Cross) - Count(b, Cricle) \in {0, 1}}
MoverOf(cells) == IF Count(cells, Cross) = Count(cells, Cricle) THEN Cross ELSE Cricle

\* The positions MiniMax is in with n empty cells when `auto` is the automated
\* piece: the cells with the flag isMax, where the piece placed next (auto
\* when isMax) is on the board as often as the other piece or once less.
TurnBoards ==
    [n \in 0..NumCells |->
        [d \in {-1, 0, 1} |->
            {c \in Board : Count(c, None) = n /\ Count(c, Cross) - Count(c, Cricle) = d}] @@ <<>>] @@ <<>>
TurnKeys(n, auto) ==
    LET other == IF auto = Cross THEN Cricle ELSE Cross
        \* Cross minus Cricle when `last` has placed once more than the other
        lead(last) == IF last = Cross THEN 1 ELSE -1
    IN  ((TurnBoards[n][0] \cup TurnBoards[n][lead(other)]) \X {TRUE})
            \cup ((TurnBoards[n][0] \cup TurnBoards[n][lead(auto)]) \X {FALSE})

\* MiniMax's result (its score) with the scores of the tabulated positions
\* read from `table`.
RECURSIVE MiniMaxScore(_, _, _, _, _)
RECURSIVE MiniMaxLoopScore(_, _, _, _, _, _)
\* MiniMaxScore scoring a line of the other piece like a full board.
MiniMaxScoreLossAsDraw(table, cells, depth, placedPiece, isMax) ==
    LET winner == CheckWin(cells, placedPiece)
    IN  IF winner # {}
        THEN IF ValueOf(winner).piece = table.auto THEN 1 ELSE 0
        ELSE IF ~HasEmpty(cells) THEN 0
        ELSE IF <<cells, isMax>> \in DOMAIN table.scores THEN table.scores[<<cells, isMax>>]
        ELSE MiniMaxLoopScore(table, cells, depth, 0, IF isMax THEN -1000 ELSE 1000, isMax)

MiniMaxScore(table, cells, depth, placedPiece, isMax) ==
    LET winner == CheckWin(cells, placedPiece)
    IN  IF winner # {}
        THEN IF ValueOf(winner).piece = table.auto THEN 1 ELSE -1
        ELSE IF ~HasEmpty(cells) THEN 0
        ELSE IF <<cells, isMax>> \in DOMAIN table.scores THEN table.scores[<<cells, isMax>>]
        ELSE MiniMaxLoopScore(table, cells, depth, 0, IF isMax THEN -1000 ELSE 1000, isMax)

\* The two for-loops of MiniMax from cell i on, over MiniMaxScore.
MiniMaxLoopScore(table, cells, depth, i, best, isMax) ==
    IF i >= NumCells THEN best
    ELSE IF cells[i] = None
    THEN LET placed == [cells EXCEPT ![i] = IF isMax THEN table.auto
                                            ELSE IF table.auto = Cross THEN Cricle ELSE Cross]
             sub == MiniMaxScore(table, placed, depth + 1, i, ~isMax)
         IN  MiniMaxLoopScore(table, cells, depth, i + 1,
                              IF isMax THEN Max2(best, sub) ELSE Min2(best, sub), isMax)
    ELSE MiniMaxLoopScore(table, cells, depth, i + 1, best, isMax)

\* The table of the positions with n, n+1, ... empty cells added to
\* `table`, which holds those with fewer.  A layer is complete before the next
\* one reads it.
RECURSIVE BuildScoreTable(_, _)
BuildScoreTable(n, table) ==
    IF n >= NumCells THEN table
    ELSE ValueOf({BuildScoreTable(n + 1, t) : t \in
            {[table EXCEPT !.scores =
                [k \in TurnKeys(n, table.auto)
                    |-> MiniMaxLoopScore(table, k[1], 0, 0,
                                         IF k[2] THEN -1000 ELSE 1000, k[2])] @@ @]}})

\* The table of the build in which Cross, and that in which Cricle, is the
\* automated piece.
ScoreTableCross == BuildScoreTable(1, [auto |-> Cross, scores |-> <<>>])
ScoreTableCricle == BuildScoreTable(1, [auto |-> Cricle, scores |-> <<>>])
ScoreTable == IF computerPiece = Cross THEN ScoreTableCross ELSE ScoreTableCricle

\* The for-loop of FindBestMove from cell i on, over MiniMaxScore.
RECURSIVE SearchLoop(_, _, _, _, _)
\* The loop returning the first empty cell, whatever its score.
SearchLoopTakesFirst(cells, piece, i, bestVal, bestMove) ==
    IF i >= NumCells THEN bestMove
    ELSE IF cells[i] = None THEN i
    ELSE SearchLoop(cells, piece, i + 1, bestVal, bestMove)

SearchLoop(cells, piece, i, bestVal, bestMove) ==
    IF i >= NumCells THEN bestMove
    ELSE IF cells[i] = None
    THEN LET moveVal == MiniMaxScore(ScoreTable, [cells EXCEPT ![i] = piece], 0, i, FALSE)
         IN  IF moveVal > bestVal
             THEN SearchLoop(cells, piece, i + 1, moveVal, i)
             ELSE SearchLoop(cells, piece, i + 1, bestVal, bestMove)
    ELSE SearchLoop(cells, piece, i + 1, bestVal, bestMove)

\* What the task started by std::async(FindBestMove, board, computerPiece)
\* returns.
SearchResult(cells, piece) == SearchLoop(cells, piece, 0, -1000, -1)

\* ---------------------------------------------------------------------------
\* Bounds of the model and the inputs of a frame
\* ---------------------------------------------------------------------------
\* Time is counted in units of aiThinkTime (0.5 s): the restart delay of
\* OnUserUpdate (2.0 s) is 4 units.
aiThinkTime == 1
restartTime == 4
\* A frame lasts 1..MaxElapsed units.
MaxElapsed == 2
\* A frame that finds the search still running is taken only while
\* aiThinkAccumulate stays within MaxThink.
MaxThink == 3
\* FindBestMove called on its own takes the boards with at most MaxEmpty empty
\* cells, MiniMax those with at most MaxEmptyMiniMax.
MaxEmpty == 5
MaxEmptyMiniMax == 3

ElapsedTimes == 1..MaxElapsed
ScreenWidth == tileSize * boardWidth
\* Mouse coordinates inside the window: the middle of every tile.
WindowCoords == {t * tileSize + tileSize \div 2 : t \in 0..(boardWidth - 1)}
\* Mouse coordinates left of / above and right of / below the window.
OutsideCoords == {-tileSize - 1, ScreenWidth}

\* ---------------------------------------------------------------------------
\* State
\* ---------------------------------------------------------------------------
VARIABLES
    board,              \* App::board
    placedPieces,       \* App::placedPieces
    currentTurn,        \* App::currentTurn
    aiThinkAccumulate,  \* App::aiThinkAccumulate
    aiNextmMove,        \* App::aiNextmMove, the future of the search task
    bGameEnded,         \* App::bGameEnded
    restartTimer,       \* App::restartTimer
    endMessage,         \* App::endMessage
    winningMove,        \* App::winningMove
    terminated,         \* the process was ended by an exception nobody caught
    lastEvent,          \* history: what the last step did, and on which cell
    callOp,             \* a function called on its own: which one
    callBoard,          \*   its board argument
    callArg,            \*   its other arguments
    callRet             \*   what it returned

appVars == <<board, placedPieces, currentTurn, aiThinkAccumulate, aiNextmMove,
             bGameEnded, restartTimer, endMessage, winningMove, terminated, lastEvent>>
callVars == <<callOp, callBoard, callArg, callRet>>
buildVars == <<playerStart>>
vars == <<appVars, callVars, buildVars>>

\* A default-constructed std::future<int>, and one whose result was taken:
\* it refers to no task.
NoFuture == [valid |-> FALSE, ready |-> FALSE, snapshot |-> EmptyBoard,
             piece |-> None, result |-> -1]

Event(kind, cell) == [kind |-> kind, cell |-> cell]

\* The members of App as one record.
App == [board |-> board, placedPieces |-> placedPieces, currentTurn |-> currentTurn,
        aiThinkAccumulate |-> aiThinkAccumulate, aiNextmMove |-> aiNextmMove,
        bGameEnded |-> bGameEnded, restartTimer |-> restartTimer,
        endMessage |-> endMessage, winningMove |-> winningMove,
        terminated |-> terminated, lastEvent |-> lastEvent]

\* The members as the class initialises them (src/main.cpp:142-153).
Constructed == [board |-> EmptyBoard, placedPieces |-> 0, currentTurn |-> None,
                aiThinkAccumulate |-> 0, aiNextmMove |-> NoFuture,
                bGameEnded |-> FALSE, restartTimer |-> 0, endMessage |-> "",
                winningMove |-> {}, terminated |-> FALSE,
                lastEvent |-> Event("constructed", -1)]

\* ---------------------------------------------------------------------------
\* The game loop.  A handler is a function from the members before it runs
\* (and its inputs) to the members after it.
\* ---------------------------------------------------------------------------
\* C++ integer division, which truncates towards zero.
IntDiv(a, b) == IF a >= 0 THEN a \div b ELSE -((-a) \div b)

\* App::WindowPosToBoardIdx
WindowPosToBoardIdx(px, py) ==
    IntDiv(px, tileSize) * boardWidth + IntDiv(py, tileSize)

\* The turn left with the piece that has just placed.
OtherTurnStays(turn) == turn

\* currentTurn == EPiece::Cross ? EPiece::Cricle : EPiece::Cross
OtherTurn(turn) == IF turn = Cross THEN Cricle ELSE Cross

\* StartAiThink leaving a task that aiNextmMove already refers to in place.
StartAiThinkKeepsTask(s) ==
    IF s.aiNextmMove.valid
    THEN [s EXCEPT !.aiThinkAccumulate = 0]
    ELSE [s EXCEPT !.aiThinkAccumulate = 0,
                   !.aiNextmMove = [valid |-> TRUE, ready |-> FALSE, snapshot |-> s.board,
                                    piece |-> computerPiece, result |-> -1]]

\* App::StartAiThink.  Assigning to aiNextmMove drops the task it referred to
\* before (the assignment waits for that task to end).
StartAiThink(s) ==
    [s EXCEPT !.aiThinkAccumulate = 0,
              !.aiNextmMove = [valid |-> TRUE, ready |-> FALSE, snapshot |-> s.board,
                               piece |-> computerPiece, result |-> -1]]

\* Reset without winningMove = {}.
ResetKeepsWinningMove(s) ==
    LET cleared == [s EXCEPT !.restartTimer = 0,
                             !.bGameEnded = FALSE,
                             !.currentTurn = Cross,
                             !.board = EmptyBoard,
                             !.placedPieces = 0]
    IN  IF useAi /\ cleared.currentTurn = computerPiece
        THEN StartAiThink(cleared)
        ELSE cleared

\* Reset without placedPieces = 0.
ResetKeepsCount(s) ==
    LET cleared == [s EXCEPT !.winningMove = {},
                             !.restartTimer = 0,
                             !.bGameEnded = FALSE,
                             !.currentTurn = Cross,
                             !.board = EmptyBoard]
    IN  IF useAi /\ cleared.currentTurn = computerPiece
        THEN StartAiThink(cleared)
        ELSE cleared

\* App::Reset
Reset(s) ==
    LET cleared == [s EXCEPT !.winningMove = {},
                             !.restartTimer = 0,
                             !.bGameEnded = FALSE,
                             !.currentTurn = Cross,
                             !.board = EmptyBoard,
                             !.placedPieces = 0]
    IN  IF useAi /\ cleared.currentTurn = computerPiece
        THEN StartAiThink(cleared)
        ELSE cleared

\* App::HandleAiTurn.  wait_for and get on a future that refers to no task are
\* undefined; every build ends the process there (an uncaught
\* std::future_error, or a null dereference).
HandleAiTurn(s) ==
    IF s.aiThinkAccumulate > aiThinkTime
    THEN IF ~s.aiNextmMove.valid
         THEN [s EXCEPT !.terminated = TRUE, !.lastEvent = Event("ai-no-task", -1)]
         ELSE IF ~s.aiNextmMove.ready
         THEN [s EXCEPT !.lastEvent = Event("ai-waiting", -1)]
         ELSE LET move == s.aiNextmMove.result
                  taken == [s EXCEPT !.aiNextmMove = NoFuture]
              IN  IF move # -1
                  THEN IF taken.board[move] = None
                       THEN LET placed == [taken EXCEPT
                                    !.placedPieces = @ + 1,
                                    !.board = [@ EXCEPT ![move] = computerPiece],
                                    !.currentTurn = OtherTurn(@)]
                            IN  [placed EXCEPT
                                    !.winningMove = CheckWin(placed.board, move),
                                    !.lastEvent = Event("ai-placed", move)]
                       ELSE [taken EXCEPT !.lastEvent = Event("ai-occupied", move)]
                  ELSE [taken EXCEPT !.lastEvent = Event("ai-no-move", -1)]
    ELSE [s EXCEPT !.lastEvent = Event("ai-thinking", -1)]

\* HandlePlayerTurn starting the search also for a click on a cell that holds
\* a piece.
HandlePlayerTurnAlwaysThinks(s, pressed, px, py) ==
    IF pressed
    THEN LET SelectedTile == WindowPosToBoardIdx(px, py)
         IN  IF SelectedTile \notin Cells
             THEN [s EXCEPT !.terminated = TRUE,
                            !.lastEvent = Event("click-out-of-range", SelectedTile)]
             ELSE IF s.board[SelectedTile] = None
             THEN LET placed == [s EXCEPT
                          !.placedPieces = @ + 1,
                          !.board = [@ EXCEPT ![SelectedTile] = s.currentTurn],
                          !.currentTurn = OtherTurn(@)]
                      checked == [placed EXCEPT
                          !.winningMove = CheckWin(placed.board, SelectedTile),
                          !.lastEvent = Event("click-placed", SelectedTile)]
                  IN  IF useAi THEN StartAiThink(checked) ELSE checked
             ELSE LET turned == [s EXCEPT !.lastEvent = Event("click-occupied", SelectedTile)]
                  IN  IF useAi THEN StartAiThink(turned) ELSE turned
    ELSE [s EXCEPT !.lastEvent = Event("no-click", -1)]

\* HandlePlayerTurn without the call of StartAiThink.
HandlePlayerTurnNeverThinks(s, pressed, px, py) ==
    IF pressed
    THEN LET SelectedTile == WindowPosToBoardIdx(px, py)
         IN  IF SelectedTile \notin Cells
             THEN [s EXCEPT !.terminated = TRUE,
                            !.lastEvent = Event("click-out-of-range", SelectedTile)]
             ELSE IF s.board[SelectedTile] = None
             THEN LET placed == [s EXCEPT
                          !.placedPieces = @ + 1,
                          !.board = [@ EXCEPT ![SelectedTile] = s.currentTurn],
                          !.currentTurn = OtherTurn(@)]
                  IN  [placed EXCEPT
                          !.winningMove = CheckWin(placed.board, SelectedTile),
                          !.lastEvent = Event("click-placed", SelectedTile)]
             ELSE [s EXCEPT !.lastEvent = Event("click-occupied", SelectedTile)]
    ELSE [s EXCEPT !.lastEvent = Event("no-click", -1)]

\* App::HandlePlayerTurn.  board.at(SelectedTile) throws std::out_of_range for
\* a tile outside the board, and nothing catches it.
HandlePlayerTurn(s, pressed, px, py) ==
    IF pressed
    THEN LET SelectedTile == WindowPosToBoardIdx(px, py)
         IN  IF SelectedTile \notin Cells
             THEN [s EXCEPT !.terminated = TRUE,
                            !.lastEvent = Event("click-out-of-range", SelectedTile)]
             ELSE IF s.board[SelectedTile] = None
             THEN LET placed == [s EXCEPT
                          !.placedPieces = @ + 1,
                          !.board = [@ EXCEPT ![SelectedTile] = s.currentTurn],
                          !.currentTurn = OtherTurn(@)]
                      checked == [placed EXCEPT
                          !.winningMove = CheckWin(placed.board, SelectedTile),
                          !.lastEvent = Event("click-placed", SelectedTile)]
                  IN  IF useAi THEN StartAiThink(checked) ELSE checked
             ELSE [s EXCEPT !.lastEvent = Event("click-occupied", SelectedTile)]
    ELSE [s EXCEPT !.lastEvent = Event("no-click", -1)]

\* The end of OnUserUpdate taking the board as full only beyond its last cell.
EndCheckBeyondFull(s) ==
    IF s.winningMove # {}
    THEN [s EXCEPT !.bGameEnded = TRUE,
                   !.endMessage =
                       IF useAi /\ ValueOf(s.winningMove).piece = computerPiece
                       THEN "Computer won!"
                       ELSE IF ValueOf(s.winningMove).piece = Cross
                            THEN "Crosses win!" ELSE "Circles win!"]
    ELSE IF s.placedPieces > boardWidth * boardWidth
    THEN [s EXCEPT !.bGameEnded = TRUE, !.endMessage = "It's a draw :/"]
    ELSE s

\* The end of OnUserUpdate (src/main.cpp:116-136): a win, or a full board.
EndCheck(s) ==
    IF s.winningMove # {}
    THEN [s EXCEPT !.bGameEnded = TRUE,
                   !.endMessage =
                       IF useAi /\ ValueOf(s.winningMove).piece = computerPiece
                       THEN "Computer won!"
                       ELSE IF ValueOf(s.winningMove).piece = Cross
                            THEN "Crosses win!" ELSE "Circles win!"]
    ELSE IF s.placedPieces >= boardWidth * boardWidth
    THEN [s EXCEPT !.bGameEnded = TRUE, !.endMessage = "It's a draw :/"]
    ELSE s

\* OnUserUpdate handling the turn of an ended game whose restart delay has not
\* passed.
OnUserUpdatePlaysOn(s, fElapsedTime, pressed, px, py) ==
    LET timed == [s EXCEPT !.restartTimer = @ + fElapsedTime]
    IN  IF s.bGameEnded /\ timed.restartTimer > restartTime
        THEN [Reset(timed) EXCEPT !.lastEvent = Event("reset", -1)]
        ELSE LET played == IF s.bGameEnded THEN timed ELSE s
                 turn == IF useAi /\ played.currentTurn = computerPiece
                         THEN HandleAiTurn([played EXCEPT
                                  !.aiThinkAccumulate = @ + fElapsedTime])
                         ELSE HandlePlayerTurn(played, pressed, px, py)
             IN  IF turn.terminated THEN turn ELSE EndCheck(turn)

\* OnUserUpdate without restartTimer += fElapsedTime.
OnUserUpdateTimerStands(s, fElapsedTime, pressed, px, py) ==
    IF s.bGameEnded
    THEN IF s.restartTimer > restartTime
         THEN [Reset(s) EXCEPT !.lastEvent = Event("reset", -1)]
         ELSE [s EXCEPT !.lastEvent = Event("ended", -1)]
    ELSE LET turn == IF useAi /\ s.currentTurn = computerPiece
                     THEN HandleAiTurn([s EXCEPT !.aiThinkAccumulate = @ + fElapsedTime])
                     ELSE HandlePlayerTurn(s, pressed, px, py)
         IN  IF turn.terminated THEN turn ELSE EndCheck(turn)

\* App::OnUserUpdate(fElapsedTime) with the mouse as the frame reads it.
OnUserUpdate(s, fElapsedTime, pressed, px, py) ==
    IF s.bGameEnded
    THEN LET timed == [s EXCEPT !.restartTimer = @ + fElapsedTime]
         IN  IF timed.restartTimer > restartTime
             THEN [Reset(timed) EXCEPT !.lastEvent = Event("reset", -1)]
             ELSE [timed EXCEPT !.lastEvent = Event("ended", -1)]
    ELSE LET turn == IF useAi /\ s.currentTurn = computerPiece
                     THEN HandleAiTurn([s EXCEPT !.aiThinkAccumulate = @ + fElapsedTime])
                     ELSE HandlePlayerTurn(s, pressed, px, py)
         IN  IF turn.terminated THEN turn ELSE EndCheck(turn)

\* App::OnUserCreate: the state the game starts in.
OnUserCreate == [Reset(Constructed) EXCEPT !.lastEvent = Event("created", -1)]

\* ---------------------------------------------------------------------------
\* Actions
\* ---------------------------------------------------------------------------
Becomes(s) ==
    /\ board' = s.board
    /\ placedPieces' = s.placedPieces
    /\ currentTurn' = s.currentTurn
    /\ aiThinkAccumulate' = s.aiThinkAccumulate
    /\ aiNextmMove' = s.aiNextmMove
    /\ bGameEnded' = s.bGameEnded
    /\ restartTimer' = s.restartTimer
    /\ endMessage' = s.endMessage
    /\ winningMove' = s.winningMove
    /\ terminated' = s.terminated
    /\ lastEvent' = s.lastEvent

Starts(s) ==
    /\ board = s.board
    /\ placedPieces = s.placedPieces
    /\ currentTurn = s.currentTurn
    /\ aiThinkAccumulate = s.aiThinkAccumulate
    /\ aiNextmMove = s.aiNextmMove
    /\ bGameEnded = s.bGameEnded
    /\ restartTimer = s.restartTimer
    /\ endMessage = s.endMessage
    /\ winningMove = s.winningMove
    /\ terminated = s.terminated
    /\ lastEvent = s.lastEvent

\* The frame is one the model takes: see MaxThink.
FrameInBounds(fElapsedTime) ==
    \/ bGameEnded
    \/ ~(useAi /\ currentTurn = computerPiece)
    \/ ~aiNextmMove.valid
    \/ aiNextmMove.ready
    \/ aiThinkAccumulate + fElapsedTime <= MaxThink

\* One frame of the engine: OnUserUpdate with the mouse at one of `coords`.
\* The engine calls OnUserUpdate once OnUserCreate has returned.
Frame(coords) ==
    /\ lastEvent.kind # "constructed"
    /\ ~terminated
    /\ \E fElapsedTime \in ElapsedTimes :
        /\ FrameInBounds(fElapsedTime)
        /\ \/ Becomes(OnUserUpdate(App, fElapsedTime, FALSE, 0, 0))
           \/ \E px \in coords, py \in coords :
                Becomes(OnUserUpdate(App, fElapsedTime, TRUE, px, py))
    /\ UNCHANGED <<callVars, buildVars>>

\* The engine reports the mouse inside the window.
Update == Frame(WindowCoords)

\* The engine reports the mouse where it is, also outside the window.
UpdateAnyMouse == Frame(WindowCoords \cup OutsideCoords)

\* The worker thread ends: FindBestMove has returned and the future is ready.
SearchDone ==
    /\ ~terminated
    /\ aiNextmMove.valid
    /\ ~aiNextmMove.ready
    /\ lastEvent' = Event("search-done", -1)
    /\ aiNextmMove' = [aiNextmMove EXCEPT
                          !.ready = TRUE,
                          !.result = SearchResult(aiNextmMove.snapshot, aiNextmMove.piece)]
    /\ UNCHANGED <<board, placedPieces, currentTurn, aiThinkAccumulate, bGameEnded,
                   restartTimer, endMessage, winningMove, terminated>>
    /\ UNCHANGED <<callVars, buildVars>>

NoCall ==
    /\ callOp = "none"
    /\ callBoard = EmptyBoard
    /\ callArg = [index |-> -1, piece |-> None, isMax |-> FALSE]
    /\ callRet = {}

\* The program as built.
Init ==
    /\ playerStart = playerStartAsBuilt
    /\ Starts(OnUserCreate)
    /\ NoCall

Next == Update \/ SearchDone

Spec == Init /\ [][Next]_vars

NextAnyMouse == UpdateAnyMouse \/ SearchDone

SpecAnyMouse == Init /\ [][NextAnyMouse]_vars

\* The program built with playerStart true, and with playerStart false.
InitEitherStart ==
    /\ playerStart \in BOOLEAN
    /\ Starts(OnUserCreate)
    /\ NoCall

SpecEitherStart == InitEitherStart /\ [][Next]_vars

\* A frame of Update in which time counts: the game has ended and the restart
\* timer runs, or the automated side is to move and HandleAiTurn polls the task.
Tick ==
    /\ lastEvent.kind # "constructed"
    /\ ~terminated
    /\ bGameEnded \/ (useAi /\ currentTurn = computerPiece)
    /\ \E fElapsedTime \in ElapsedTimes :
        /\ FrameInBounds(fElapsedTime)
        /\ \E updated \in {OnUserUpdate(App, fElapsedTime, FALSE, 0, 0)} :
            Becomes(updated)
    /\ UNCHANGED <<callVars, buildVars>>

\* The step of a frame in which the human, whose turn it is, clicks an empty
\* cell: HandlePlayerTurn puts the piece to move there.
ClickEmptyCell ==
    /\ lastEvent.kind # "constructed"
    /\ ~terminated
    /\ ~bGameEnded
    /\ ~(useAi /\ currentTurn = computerPiece)
    /\ \E i \in Cells :
        /\ board[i] = None
        /\ board' = [board EXCEPT ![i] = currentTurn]

\* The game with frames that keep coming, search tasks that end, and a human
\* who, when it is their turn, comes to click an empty cell.
SpecFair ==
    /\ InitEitherStart
    /\ [][Next]_vars
    /\ WF_vars(Tick)
    /\ WF_vars(SearchDone)
    /\ WF_board(ClickEmptyCell)

\* ---------------------------------------------------------------------------
\* The functions called on their own
\* ---------------------------------------------------------------------------
\* A function is called on a board with the game constructed and not yet
\* created.
Uncalled(cells) ==
    /\ playerStart = playerStartAsBuilt
    /\ Starts(Constructed)
    /\ callOp = "none"
    /\ callBoard = cells
    /\ callArg = [index |-> -1, piece |-> None, isMax |-> FALSE]
    /\ callRet = {}

\* CheckWin(callBoard, p)
CallCheckWin ==
    /\ callOp = "none"
    /\ \E p \in Cells :
        /\ callArg' = [callArg EXCEPT !.index = p]
        /\ callRet' = CheckWin(callBoard, p)
    /\ callOp' = "CheckWin"
    /\ UNCHANGED <<callBoard, appVars, buildVars>>

InitCheckWin == \E cells \in Board : Uncalled(cells)

SpecCheckWin == InitCheckWin /\ [][CallCheckWin]_vars

\* The boards of a game (Cross and Cricle placed in turn, Cross first) with at
\* most MaxEmpty empty cells.
SearchBoards == {b \in GameBoards : Count(b, None) <= MaxEmpty}

\* FindBestMove(callBoard, piece)
CallFindBestMove ==
    /\ callOp = "none"
    /\ \E piece \in {Cross, Cricle} :
        /\ callArg' = [callArg EXCEPT !.piece = piece]
        /\ callRet' = FindBestMove(callBoard, piece)
    /\ callOp' = "FindBestMove"
    /\ UNCHANGED <<callBoard, appVars, buildVars>>

InitFindBestMove == \E cells \in SearchBoards : Uncalled(cells)

SpecFindBestMove == InitFindBestMove /\ [][CallFindBestMove]_vars

\* The boards MiniMax is called on.
MiniMaxBoards == {b \in GameBoards : Count(b, None) <= MaxEmptyMiniMax}

\* MiniMax(callBoard, 0, p, isMax) as the search calls it: p holds the piece
\* placed last, and isMax says that the automated piece is placed next.
CallMiniMax ==
    /\ callOp = "none"
    /\ lastEvent.kind = "constructed"
    /\ \E p \in Cells :
        /\ callBoard[p] = OtherTurn(MoverOf(callBoard))
        /\ callArg' = [callArg EXCEPT !.index = p,
                                      !.isMax = (MoverOf(callBoard) = computerPiece)]
        /\ callRet' = MiniMax(callBoard, 0, p, MoverOf(callBoard) = computerPiece)
    /\ callOp' = "MiniMax"
    /\ UNCHANGED <<callBoard, appVars, buildVars>>

InitMiniMax == \E cells \in MiniMaxBoards : Uncalled(cells)

\* The game, and beside it MiniMax called on boards.
InitSearch == Init \/ InitMiniMax

NextSearch == Update \/ SearchDone \/ CallMiniMax

SpecSearch == InitSearch /\ [][NextSearch]_vars

\* FindBestMove(callBoard, piece), for the pieces it places.
CallFindBestMovePaths ==
    /\ callOp = "none"
    /\ \E piece \in {Cross, Cricle} :
        /\ callArg' = [callArg EXCEPT !.piece = piece]
        /\ callRet' = FindBestMovePaths(callBoard, piece)
    /\ callOp' = "FindBestMovePaths"
    /\ UNCHANGED <<callBoard, appVars, buildVars>>

SpecPaths == InitMiniMax /\ [][CallFindBestMovePaths]_vars

\* ---------------------------------------------------------------------------
\* Play from the empty board
\* ---------------------------------------------------------------------------
\* A play on callBoard, for either value of playerStart and with either side
\* placing first: the automated side places on the cell FindBestMove returns,
\* the other side on any empty cell.  callArg holds the cell placed last and
\* the piece placed next, callRet the piece that placed first and whether
\* every reply of the other side so far scored lowest among its replies.
PlayOver ==
    \/ ~HasEmpty(callBoard)
    \/ callArg.index \in Cells /\ CheckWin(callBoard, callArg.index) # {}

\* The score MiniMax gives the placement of the other side's piece on cell c.
ReplyScore(c) ==
    MiniMaxScore(ScoreTable, [callBoard EXCEPT ![c] = playerPiece], 0, c, TRUE)

PlayFindBestMove ==
    /\ callOp \in {"play", "play-reply"}
    /\ ~PlayOver
    /\ callArg.piece = computerPiece
    /\ LET move == SearchResult(callBoard, computerPiece)
       IN  /\ callBoard' = [callBoard EXCEPT ![move] = computerPiece]
           /\ callArg' = [callArg EXCEPT !.index = move, !.piece = playerPiece]
    /\ callOp' = "play-FindBestMove"
    /\ UNCHANGED <<callRet, appVars, buildVars>>

PlayReply ==
    /\ callOp \in {"play", "play-FindBestMove"}
    /\ ~PlayOver
    /\ callArg.piece = playerPiece
    /\ \E c \in Cells :
        /\ callBoard[c] = None
        /\ callBoard' = [callBoard EXCEPT ![c] = playerPiece]
        /\ callArg' = [callArg EXCEPT !.index = c, !.piece = computerPiece]
        /\ callRet' = [callRet EXCEPT !.optimal =
                            @ /\ \A d \in Cells :
                                    callBoard[d] = None => ReplyScore(c) <= ReplyScore(d)]
    /\ callOp' = "play-reply"
    /\ UNCHANGED <<appVars, buildVars>>

InitPlay ==
    /\ playerStart \in BOOLEAN
    /\ Starts(Constructed)
    /\ callOp = "play"
    /\ callBoard = EmptyBoard
    /\ \E first \in {Cross, Cricle} :
        /\ callArg = [index |-> -1, piece |-> first, isMax |-> FALSE]
        /\ callRet = [first |-> first, optimal |-> TRUE]

NextPlay == PlayFindBestMove \/ PlayReply

SpecPlay == InitPlay /\ [][NextPlay]_vars

\* ---------------------------------------------------------------------------
\* What the claims speak of
\* ---------------------------------------------------------------------------
CellAt(x, y) == x * boardWidth + y
InGrid(x, y) == x \in 0..(boardWidth - 1) /\ y \in 0..(boardWidth - 1)

\* The four families of lines, each by its negative direction, in the order
\* horizontal, vertical, diagonal, anti-diagonal.
Families == << <<-1, 0>>, <<0, -1>>, <<-1, -1>>, <<-1, 1>> >>

\* The piecesToWin cells from (x, y) on against direction d, when they are all
\* in the grid.
Segment(x, y, d) == {CellAt(x - k * d[1], y - k * d[2]) : k \in 0..(piecesToWin - 1)}
SegmentInGrid(x, y, d) ==
    \A k \in 0..(piecesToWin - 1) : InGrid(x - k * d[1], y - k * d[2])

\* The lines of the board: per family, the segments that lie in the grid.
Lines ==
    [f \in 1..Len(Families) |->
        {Segment(xy[1], xy[2], Families[f]) :
            xy \in {c \in (0..(boardWidth - 1)) \X (0..(boardWidth - 1)) :
                        SegmentInGrid(c[1], c[2], Families[f])}}] @@ <<>>

\* The lines of family f through cell p whose cells all hold what p holds.
RunsThrough(cells, p, f) ==
    {seg \in Lines[f] : p \in seg /\ \A c \in seg : cells[c] = cells[p]}

\* p lies on a straight run of at least piecesToWin cells holding its piece.
OnRun(cells, p) == \E f \in 1..Len(Families) : RunsThrough(cells, p, f) # {}

\* Some line of the board is filled with `piece`.
Completed(cells, piece) ==
    \E p \in Cells : cells[p] = piece /\ OnRun(cells, p)

\* ---------------------------------------------------------------------------
\* C1
\* ---------------------------------------------------------------------------
\* C1: for a cell p that holds a piece, CheckWin(board, p) returns a
\* WinningMove exactly when p lies on a straight run (horizontal, vertical or
\* either diagonal) of at least piecesToWin cells holding p's piece; p counts
\* once and the run ends at the edge of the grid.  Otherwise it returns nothing.
C1_CheckWinIffOnRun ==
    (callOp = "CheckWin" /\ callBoard[callArg.index] # None)
        => ((callRet # {}) <=> OnRun(callBoard, callArg.index))

\* CheckWin was called on a corner cell that ends a winning run, and on it
\* returned a WinningMove.
C1_Witness ==
    /\ callOp = "CheckWin"
    /\ callArg.index = NumCells - 1
    /\ callBoard[callArg.index] = Cross
    /\ callRet # {}

\* ---------------------------------------------------------------------------
\* C2
\* ---------------------------------------------------------------------------
\* The first family, in CheckWin's order, in which p lies on a run.
FirstFamily(cells, p) ==
    CHOOSE f \in 1..Len(Families) :
        /\ RunsThrough(cells, p, f) # {}
        /\ \A g \in 1..(f - 1) : RunsThrough(cells, p, g) = {}

\* The last cell reached from (x, y) by steps of d over cells holding `piece`.
RECURSIVE RunEnd(_, _, _, _, _)
RunEnd(cells, piece, x, y, d) ==
    IF InGrid(x + d[1], y + d[2]) /\ cells[CellAt(x + d[1], y + d[2])] = piece
    THEN RunEnd(cells, piece, x + d[1], y + d[2], d)
    ELSE <<x, y>>

\* The board [X, X, X, O, O, Empty, Empty, Empty, Empty].
ScenarioBoard ==
    [i \in Cells |-> IF i \in {0, 1, 2} THEN Cross ELSE IF i \in {3, 4} THEN Cricle ELSE None]

CoordsOf(p) == <<p \div boardWidth, p % boardWidth>>

\* C2 as the claim states it: the WinningMove holds the piece at p, the
\* negative direction of the winning family, and as its anchor the last cell
\* of the run in that direction; on the scenario board CheckWin(board, 2)
\* returns Cross, direction (-1, 0) and the anchor at index 0.
C2_AnchorIsRunEnd ==
    (callOp = "CheckWin" /\ callBoard[callArg.index] # None /\ callRet # {})
        => LET p == callArg.index
               wm == ValueOf(callRet)
               d == Families[FirstFamily(callBoard, p)]
           IN  /\ wm.piece = callBoard[p]
               /\ wm.direction = d
               /\ wm.position = RunEnd(callBoard, callBoard[p], CoordsOf(p)[1], CoordsOf(p)[2], d)
               /\ (callBoard = ScenarioBoard /\ p = 2)
                    => (wm.direction = <<-1, 0>> /\ wm.position = CoordsOf(0))

\* C2, amended: the WinningMove holds the piece at p, the negative direction of
\* the first family (horizontal, vertical, diagonal, anti-diagonal) in which p
\* lies on a run, and as its position the cell p itself; walking from that
\* position in that direction over cells of the piece ends on the run's last
\* cell, and the piecesToWin cells from there back are a run through p.  On the
\* scenario board CheckWin(board, 2) returns Cross, direction (0, -1) and the
\* position (0, 2), which is index 2.
C2_PositionIsPlacedCell ==
    (callOp = "CheckWin" /\ callBoard[callArg.index] # None /\ callRet # {})
        => LET p == callArg.index
               wm == ValueOf(callRet)
               f == FirstFamily(callBoard, p)
               end == RunEnd(callBoard, wm.piece, wm.position[1], wm.position[2], wm.direction)
           IN  /\ wm.piece = callBoard[p]
               /\ wm.direction = Families[f]
               /\ wm.position = CoordsOf(p)
               /\ SegmentInGrid(end[1], end[2], wm.direction)
               /\ Segment(end[1], end[2], wm.direction) \in RunsThrough(callBoard, p, f)
               /\ (callBoard = ScenarioBoard /\ p = 2)
                    => (wm = [piece |-> Cross, position |-> <<0, 2>>, direction |-> <<0, -1>>]
                        /\ CellAt(wm.position[1], wm.position[2]) = 2)

\* CheckWin was called on cell 2 of the scenario board and returned a
\* WinningMove.
C2_Witness ==
    /\ callOp = "CheckWin"
    /\ callBoard = ScenarioBoard
    /\ callArg.index = 2
    /\ callRet # {}

\* ---------------------------------------------------------------------------
\* C3
\* ---------------------------------------------------------------------------
EmptyCells(cells) == {i \in Cells : cells[i] = None}

\* C3: FindBestMove(board, piece) returns the index of a cell that is empty in
\* the board whenever the board has an empty cell, and -1 only when it has
\* none.
C3_ReturnsEmptyCellOrSentinel ==
    callOp = "FindBestMove"
        => IF EmptyCells(callBoard) # {}
           THEN callRet \in EmptyCells(callBoard)
           ELSE callRet = -1

\* FindBestMove was called on a board on which no move of the piece scores
\* above -1 (every move loses), and returned one of its empty cells.
C3_Witness ==
    /\ callOp = "FindBestMove"
    /\ Cardinality(EmptyCells(callBoard)) >= 2
    /\ callRet \in EmptyCells(callBoard)
    /\ \A i \in EmptyCells(callBoard) :
            MiniMax([callBoard EXCEPT ![i] = callArg.piece], 0, i, FALSE).score = -1

\* FindBestMove was called on a full board and returned -1.
C3_WitnessFull ==
    /\ callOp = "FindBestMove"
    /\ EmptyCells(callBoard) = {}
    /\ callRet = -1

\* ---------------------------------------------------------------------------
\* C4
\* ---------------------------------------------------------------------------
SetMax(S) == CHOOSE m \in S : \A n \in S : n <= m
SetMin(S) == CHOOSE m \in S : \A n \in S : m <= n

\* The minimax score of a position with `mover` to place: +1 when the
\* automated piece has a line, -1 when the other piece has one, 0 on a full
\* board, else the best score over the placements of the mover.
RECURSIVE Score(_, _)
Score(cells, mover) ==
    IF Completed(cells, computerPiece) THEN 1
    ELSE IF Completed(cells, playerPiece) THEN -1
    ELSE IF EmptyCells(cells) = {} THEN 0
    ELSE LET after == {Score([cells EXCEPT ![i] = mover], OtherTurn(mover)) :
                            i \in EmptyCells(cells)}
         IN  IF mover = computerPiece THEN SetMax(after) ELSE SetMin(after)

\* The score of placing the automated piece on cell i.
MoveScore(cells, i) == Score([cells EXCEPT ![i] = computerPiece], playerPiece)

BestCells(cells) ==
    {i \in EmptyCells(cells) :
        \A j \in EmptyCells(cells) : MoveScore(cells, j) <= MoveScore(cells, i)}

\* The boards C4 speaks of: no line filled, the automated piece to move (and a
\* cell left to move to).
ToMoveNoWinner(cells) ==
    /\ MoverOf(cells) = computerPiece
    /\ ~Completed(cells, Cross)
    /\ ~Completed(cells, Cricle)
    /\ EmptyCells(cells) # {}

\* C4: on a board without a filled line and with the automated piece to move,
\* FindBestMove returns the lowest empty cell whose minimax score is maximal
\* among the empty cells.
C4_LowestBestCell ==
    (callOp = "FindBestMove" /\ callArg.piece = computerPiece /\ ToMoveNoWinner(callBoard))
        => callRet = SetMin(BestCells(callBoard))

\* FindBestMove was called for the automated piece on such a board with four
\* or more empty cells of which several score best and some score worse, and
\* returned the lowest of the best, which is not the lowest empty cell.
C4_Witness ==
    /\ callOp = "FindBestMove"
    /\ callArg.piece = computerPiece
    /\ ToMoveNoWinner(callBoard)
    /\ Cardinality(EmptyCells(callBoard)) >= 4
    /\ Cardinality(BestCells(callBoard)) >= 2
    /\ callRet = SetMin(BestCells(callBoard))
    /\ callRet # SetMin(EmptyCells(callBoard))

\* ---------------------------------------------------------------------------
\* C5
\* ---------------------------------------------------------------------------
\* The search task ends in this step.
SearchEnds == aiNextmMove.valid /\ ~aiNextmMove.ready /\ aiNextmMove'.ready

\* C5: the search leaves no side effect on its input.  When MiniMax returns,
\* the board it was given is cell for cell what it was at the call; and the
\* step in which a search task of the game ends changes neither the live board
\* nor the placement count nor the turn (nor the task's snapshot).
C5_SearchLeavesNoTrace ==
    [][/\ callOp' = "MiniMax" => callRet'.cells = callBoard'
       /\ SearchEnds => /\ UNCHANGED <<board, placedPieces, currentTurn>>
                        /\ aiNextmMove'.snapshot = aiNextmMove.snapshot]_vars

\* MiniMax was called on a board with empty cells left and no line through
\* the placed cell, so it went through its loop; it has returned.
C5_Witness ==
    /\ callOp = "MiniMax"
    /\ Cardinality(EmptyCells(callBoard)) >= 2
    /\ ~OnRun(callBoard, callArg.index)
    /\ callRet.cells = callBoard

\* A search task of the game has ended while the game goes on.
C5_WitnessGame ==
    /\ lastEvent.kind = "search-done"
    /\ aiNextmMove.ready
    /\ ~bGameEnded
    /\ placedPieces >= 3

\* ---------------------------------------------------------------------------
\* C6
\* ---------------------------------------------------------------------------
\* C6: in every state of the game, placedPieces is the number of cells of the
\* live board that are not empty.
C6_CountMatchesBoard ==
    placedPieces = Cardinality(Cells \ EmptyCells(board))

\* A second game has begun (a message of an earlier end is still there) and
\* both sides have placed in it.
C6_Witness ==
    /\ endMessage # ""
    /\ ~bGameEnded
    /\ placedPieces >= 2
    /\ lastEvent.kind = "ai-placed"

\* ---------------------------------------------------------------------------
\* C7
\* ---------------------------------------------------------------------------
CrossLead(cells) == Count(cells, Cross) - Count(cells, Cricle)
ChangedCells == {i \in Cells : board'[i] # board[i]}

\* A step of the game: it leaves the board and the mover, or it places the
\* mover's piece on one empty cell and passes the turn, or it clears the board
\* for a game that Cross begins.
C7_Step ==
    \/ /\ ChangedCells = {}
       /\ currentTurn' = currentTurn
    \/ /\ \E i \in Cells :
            /\ ChangedCells = {i}
            /\ board[i] = None
            /\ board'[i] = currentTurn
       /\ currentTurn' \in {Cross, Cricle} \ {currentTurn}
    \/ /\ board' = EmptyBoard
       /\ currentTurn' = Cross

\* C7: each update step places at most one piece, that piece is the current
\* mover's, the mover flips on every placement and is Cross after Reset; and
\* in every state the board holds as many Cross as Cricle cells, or one more.
C7_OnePlacementPerTurn ==
    [][C7_Step /\ CrossLead(board) \in {0, 1} /\ CrossLead(board') \in {0, 1}]_vars

\* The automated side has just placed: Cross and Cricle are level again.
C7_Witness ==
    /\ lastEvent.kind = "ai-placed"
    /\ placedPieces >= 4
    /\ currentTurn = Cross
    /\ CrossLead(board) = 0

\* ---------------------------------------------------------------------------
\* C8
\* ---------------------------------------------------------------------------
AutomatedWin == "Computer won!"
Piece1Win == "Crosses win!"
Piece2Win == "Circles win!"
Draw == "It's a draw :/"

WinOf(piece) ==
    IF useAi /\ piece = computerPiece THEN AutomatedWin
    ELSE IF piece = Cross THEN Piece1Win ELSE Piece2Win

\* C8: after every placement (by the human or by the automated side): if the
\* placed cell completes a run, the game has ended as a win of that piece,
\* also when the board is full; else if the board is full, it has ended as a
\* draw; else it has not ended.
C8_EndAfterPlacement ==
    lastEvent.kind \in {"click-placed", "ai-placed"}
        => IF OnRun(board, lastEvent.cell)
           THEN bGameEnded /\ endMessage = WinOf(board[lastEvent.cell])
           ELSE IF EmptyCells(board) = {}
           THEN bGameEnded /\ endMessage = Draw
           ELSE ~bGameEnded

\* The human has filled the board and no line is filled: the game has ended
\* as a draw.
C8_Witness ==
    /\ lastEvent.kind = "click-placed"
    /\ EmptyCells(board) = {}
    /\ ~Completed(board, Cross)
    /\ ~Completed(board, Cricle)
    /\ bGameEnded
    /\ endMessage = Draw

\* The automated side has completed a run: the game has ended as its win.
C8_WitnessWin ==
    /\ lastEvent.kind = "ai-placed"
    /\ OnRun(board, lastEvent.cell)
    /\ bGameEnded
    /\ endMessage = AutomatedWin

\* ---------------------------------------------------------------------------
\* C9
\* ---------------------------------------------------------------------------
\* C9: a click of the human on a cell that is not empty is ignored: the board,
\* the placement count, the mover and the winning move stay, and no search
\* task is started.
C9_ClickOnOccupiedIgnored ==
    [][lastEvent'.kind = "click-occupied"
        => /\ board[lastEvent'.cell] # None
           /\ UNCHANGED <<board, placedPieces, currentTurn, winningMove,
                          aiNextmMove, bGameEnded>>]_vars

\* The human has clicked a cell that holds a piece.
C9_Witness ==
    /\ lastEvent.kind = "click-occupied"
    /\ board[lastEvent.cell] # None
    /\ currentTurn = playerPiece
    /\ ~bGameEnded

\* ---------------------------------------------------------------------------
\* C10
\* ---------------------------------------------------------------------------
\* C10: a click of the human that maps to an index outside [0, N*N) is turned
\* down without a fatal error: the game keeps running, and the board, the
\* placement count and the mover are unchanged.
C10_ClickOutsideBoardTurnedDown ==
    [][lastEvent'.kind = "click-out-of-range"
        => /\ ~terminated'
           /\ UNCHANGED <<board, placedPieces, currentTurn>>]_vars

\* ---------------------------------------------------------------------------
\* C11
\* ---------------------------------------------------------------------------
\* A search task has been started and has not ended.
SearchRunning == aiNextmMove.valid /\ ~aiNextmMove.ready

\* C11: a search task is started only on a position that is not final: the
\* board it was given has no filled line and has an empty cell, so
\* FindBestMove is never run by the game on a full board.
C11_SearchOnlyOnOpenPosition ==
    SearchRunning
        => /\ ~Completed(aiNextmMove.snapshot, Cross)
           /\ ~Completed(aiNextmMove.snapshot, Cricle)
           /\ EmptyCells(aiNextmMove.snapshot) # {}

\* ---------------------------------------------------------------------------
\* C12
\* ---------------------------------------------------------------------------
\* What HandlePlayerTurn records of a pressed mouse button.
ClickEvents == {"click-placed", "click-occupied", "click-out-of-range"}

\* C12: while a search task has been started and its result has not been
\* taken, a click of the human places no piece: the board, the placement count
\* and the mover are as they were before the click.
C12_NoPlacementWhileSearchOutstanding ==
    [][(aiNextmMove.valid /\ lastEvent'.kind \in ClickEvents)
        => UNCHANGED <<board, placedPieces, currentTurn>>]_vars

\* ---------------------------------------------------------------------------
\* C13
\* ---------------------------------------------------------------------------
\* The piece of the side that the build lets start.
StartingPiece == IF playerStart THEN playerPiece ELSE computerPiece

\* The state s is an initial state in the members the claim lists.
InitialMembers(s) ==
    /\ s.board = EmptyBoard
    /\ s.placedPieces = 0
    /\ s.currentTurn = StartingPiece
    /\ s.winningMove = {}
    /\ ~s.bGameEnded
    /\ s.restartTimer = 0

\* C13: from every reachable state Reset yields an initial state (every cell
\* empty, count 0, the mover the starting piece, no winning move, not ended,
\* restart timer 0), and Reset run twice yields what Reset run once yields;
\* the state after a restart of the game is such a state.
C13_ResetYieldsInitialState ==
    /\ InitialMembers(Reset(App))
    /\ Reset(Reset(App)) = Reset(App)
    /\ lastEvent.kind = "reset" => InitialMembers(App)

\* The game has been restarted after an end with a winning move.
C13_Witness ==
    /\ lastEvent.kind = "reset"
    /\ endMessage = AutomatedWin
    /\ InitialMembers(App)

\* ---------------------------------------------------------------------------
\* C14
\* ---------------------------------------------------------------------------
\* The score MiniMax gives the placement of the automated piece on cell i of
\* the empty board.
OpeningScore(i) ==
    MiniMaxScore(ScoreTable, [EmptyBoard EXCEPT ![i] = computerPiece], 0, i, FALSE)

Centre == (boardWidth \div 2) * boardWidth + boardWidth \div 2

\* C14: on the empty board the centre scores as high as any of the nine cells
\* for the automated piece; and a play from the empty board in which the
\* automated side places on FindBestMove's cell and the other side always
\* replies with a lowest-scoring placement ends in a draw or in a win of the
\* side that placed first, not of the other.
C14_CentreOptimalAndFirstNeverLoses ==
    /\ callBoard = EmptyBoard => \A i \in Cells : OpeningScore(i) <= OpeningScore(Centre)
    /\ (PlayOver /\ callRet.optimal)
        => ~Completed(callBoard, IF callRet.first = Cross THEN Cricle ELSE Cross)

\* A play that the automated side began has ended as a draw on the full
\* board, every reply having scored lowest.
C14_Witness ==
    /\ callRet.first = computerPiece
    /\ callRet.optimal
    /\ ~HasEmpty(callBoard)
    /\ ~Completed(callBoard, Cross)
    /\ ~Completed(callBoard, Cricle)
    /\ callOp = "play-FindBestMove"

\* ---------------------------------------------------------------------------
\* C15
\* ---------------------------------------------------------------------------
\* The pieces of `path` are by turns `piece` and the other piece.
Alternates(path, piece) ==
    \A k \in 1..Len(path) :
        path[k] = IF k % 2 = 1 THEN piece ELSE IF piece = Cross THEN Cricle ELSE Cross

\* C15: for either piece given to FindBestMove, the pieces placed along every
\* path of the search alternate between the two pieces, the given piece first.
C15_SearchAlternates ==
    callOp = "FindBestMovePaths"
        => \A path \in callRet : Alternates(path, callArg.piece)

\* ---------------------------------------------------------------------------
\* C16
\* ---------------------------------------------------------------------------
\* The state Reset leaves: the listed members initial and, when the human
\* starts, the human to move; when the automated side starts, a search task
\* just started on the empty board.
Restarted ==
    /\ lastEvent.kind = "reset"
    /\ InitialMembers(App)
    /\ IF playerStart
       THEN currentTurn = playerPiece
       ELSE /\ currentTurn = computerPiece
            /\ SearchRunning
            /\ aiNextmMove.snapshot = EmptyBoard
            /\ aiThinkAccumulate = 0

\* C16: with frames that keep coming, search tasks that end and a human who
\* comes to click an empty cell when it is their turn, every game ends, with
\* no more than N*N pieces placed, and every ended game is followed by a Reset
\* to the initial state.
C16_GameEndsAndRestarts ==
    /\ [](placedPieces <= NumCells)
    /\ ~bGameEnded ~> bGameEnded
    /\ bGameEnded ~> Restarted

\* The automated side starts; a game has ended and Reset has started the
\* search of the next one.
C16_Witness ==
    /\ ~playerStart
    /\ Restarted
    /\ endMessage # ""

\* ---------------------------------------------------------------------------
\* C17
\* ---------------------------------------------------------------------------
\* C17: in the game as configured (3x3, three in a row, the search enabled),
\* with the human starting or the automated side starting, and whatever the
\* human clicks: no ended game has the human's piece as its winner. The board
\* holds no filled line of the human's piece, the winning move, if any, is of
\* the automated piece, and the game has ended as a draw or as a win of the
\* automated piece.
C17_HumanNeverWins ==
    bGameEnded
        => /\ ~Completed(board, playerPiece)
           /\ \A w \in winningMove : w.piece = computerPiece
           /\ endMessage \in {AutomatedWin, Draw}
           /\ endMessage = AutomatedWin <=> Completed(board, computerPiece)

\* The human starts and loses: the game has ended with a line of the automated
\* piece.
C17_Witness ==
    /\ playerStart
    /\ bGameEnded
    /\ endMessage = AutomatedWin
    /\ Completed(board, computerPiece)

\* The automated side starts, and the game has ended as a draw.
C17_WitnessDraw ==
    /\ ~playerStart
    /\ bGameEnded
    /\ endMessage = Draw
    /\ placedPieces = NumCells

\* ---------------------------------------------------------------------------
\* C18
\* ---------------------------------------------------------------------------
\* HandleAiTurn takes the result of the task: aiNextmMove.get().
ResultTaken == aiNextmMove.valid /\ ~aiNextmMove'.valid

\* C18: in every step that takes the result of a search task, the task has
\* ended and the board of the game is, cell for cell, the board the task was
\* started on; and every step in which the automated piece is placed takes
\* such a result and puts the piece on the cell the task returned.  No result
\* found for an earlier board, or in a game that has ended since, is applied.
C18_ResultAppliedToSnapshot ==
    [][/\ ResultTaken
            => /\ aiNextmMove.ready
               /\ board = aiNextmMove.snapshot
       /\ lastEvent'.kind = "ai-placed"
            => /\ ResultTaken
               /\ aiNextmMove.result \in Cells
               /\ board' = [aiNextmMove.snapshot EXCEPT
                                ![aiNextmMove.result] = computerPiece]]_vars

\* The human's ninth piece ended a game as a draw and started a search on the
\* full board; in the next game a result has been applied.
C18_Witness ==
    /\ playerStart
    /\ endMessage = Draw
    /\ ~bGameEnded
    /\ lastEvent.kind = "ai-placed"
    /\ ~aiNextmMove.valid

\* ---------------------------------------------------------------------------
\* C19
\* ---------------------------------------------------------------------------
\* OnUserUpdate calls HandleAiTurn in the next frame.
AutomatedToMove ==
    /\ useAi
    /\ ~terminated
    /\ ~bGameEnded
    /\ currentTurn = computerPiece

\* What HandleAiTurn records when it polls a future that refers to no task,
\* or takes a result it does not apply.
UnappliedEvents == {"ai-no-task", "ai-no-move", "ai-occupied"}

\* C19: whenever the automated side is to move, so that HandleAiTurn runs,
\* aiNextmMove refers to a task whose result has not been taken; every result
\* HandleAiTurn takes is the index of a cell (not the sentinel -1), that cell
\* is empty, the automated piece is placed on it and the turn passes to the
\* human; and HandleAiTurn never polls a future without a task nor drops a
\* result.
C19_TaskPolledOnlyWhileUntaken ==
    [][/\ AutomatedToMove => aiNextmMove.valid
       /\ AutomatedToMove' => aiNextmMove'.valid
       /\ lastEvent'.kind \notin UnappliedEvents
       /\ ResultTaken
            => /\ AutomatedToMove
               /\ aiNextmMove.result \in Cells
               /\ board[aiNextmMove.result] = None
               /\ board'[aiNextmMove.result] = computerPiece
               /\ placedPieces' = placedPieces + 1
               /\ currentTurn' = playerPiece
               /\ lastEvent' = Event("ai-placed", aiNextmMove.result)]_vars

\* The automated side starts: the result of the task Reset started has been
\* taken and applied, and the human is to move.
C19_Witness ==
    /\ ~playerStart
    /\ lastEvent.kind = "ai-placed"
    /\ placedPieces = 1
    /\ currentTurn = playerPiece
    /\ ~aiNextmMove.valid

\* ---------------------------------------------------------------------------
\* C20
\* ---------------------------------------------------------------------------
\* C20: a step taken while the game has ended is the Reset, taken when the
\* restart delay has passed, or leaves the board, the placement count, the
\* mover and the winning move as they are and the game ended: a click and the
\* end of a search task change none of them.
C20_EndedGameStands ==
    [][bGameEnded
        => IF lastEvent'.kind = "reset"
           THEN /\ \E fElapsedTime \in ElapsedTimes :
                      restartTimer + fElapsedTime > restartTime
                /\ ~bGameEnded'
                /\ board' = EmptyBoard
           ELSE /\ UNCHANGED <<board, placedPieces, currentTurn, winningMove>>
                /\ bGameEnded'
                /\ lastEvent'.kind \in {"ended", "search-done"}]_vars

\* The game has ended with the human's placement; the restart delay runs and
\* the search task that placement started has ended meanwhile.
C20_Witness ==
    /\ bGameEnded
    /\ restartTimer >= 2
    /\ lastEvent.kind = "ended"
    /\ aiNextmMove.valid
    /\ aiNextmMove.ready
    /\ placedPieces = NumCells

====
